---------------------------- MODULE Spec2Model ----------------------------
(***************************************************************************)
(* A model of the lazy-calculator MCP server, lazy_calculator_server.py.   *)
(*                                                                         *)
(* Strings that the program inspects character by character (the question, *)
(* the normalized expression) are sequences of one-character strings.      *)
(* Strings that the program only builds (messages) are TLA+ strings.       *)
(***************************************************************************)
EXTENDS Integers, Sequences, FiniteSets, TLC

(***************************************************************************)
(* Characters and the str / re primitives parse_math_question uses.        *)
(***************************************************************************)
Digits == {"0", "1", "2", "3", "4", "5", "6", "7", "8", "9"}

LowerLetters ==
  <<"a", "b", "c", "d", "e", "f", "g", "h", "i", "j", "k", "l", "m",
    "n", "o", "p", "q", "r", "s", "t", "u", "v", "w", "x", "y", "z">>

UpperLetters ==
  <<"A", "B", "C", "D", "E", "F", "G", "H", "I", "J", "K", "L", "M",
    "N", "O", "P", "Q", "R", "S", "T", "U", "V", "W", "X", "Y", "Z">>

Range(f) == {f[i] : i \in DOMAIN f}

\* \s of the re module, on the characters the model uses.
Whitespace == {" ", "\t"}

\* \w of the re module: letters, digits and the underscore.
WordChars == Range(LowerLetters) \cup Range(UpperLetters) \cup Digits \cup {"_"}

\* A character class that lacks the decimal point: [\d\+\-\*/\^\%\(\)\s]
PointlessMathChars == Digits \cup {"+", "-", "*", "/", "^", "%", "(", ")"} \cup Whitespace

\* The character class of math_pattern: [\d\.\+\-\*/\^\%\(\)\s]
MathChars == Digits \cup {".", "+", "-", "*", "/", "^", "%", "(", ")"} \cup Whitespace

\* str.lower() of one character.
LowerChar(c) ==
  IF \E i \in 1..26 : UpperLetters[i] = c
  THEN LowerLetters[CHOOSE i \in 1..26 : UpperLetters[i] = c]
  ELSE c

\* str.lower()
lower(s) == [i \in 1..Len(s) |-> LowerChar(s[i])]

\* Whether the string p occurs in s starting at index i.
MatchAt(s, p, i) ==
  /\ i + Len(p) - 1 <= Len(s)
  /\ \A j \in 1..Len(p) : s[i + j - 1] = p[j]

\* \b between s[k] and s[k+1] (k = 0 and k = Len(s) are the two ends): exactly
\* one of the two sides is a \w character.
IsWordAt(s, k) == k >= 1 /\ k <= Len(s) /\ s[k] \in WordChars

WordBoundary(s, k) == IsWordAt(s, k) # IsWordAt(s, k + 1)

\* str.replace(old, new) from index i on: leftmost, non-overlapping occurrences.
RECURSIVE ReplaceFrom(_, _, _, _)
ReplaceFrom(s, old, new, i) ==
  IF i > Len(s) THEN <<>>
  ELSE IF MatchAt(s, old, i)
       THEN new \o ReplaceFrom(s, old, new, i + Len(old))
       ELSE <<s[i]>> \o ReplaceFrom(s, old, new, i + 1)

\* str.replace(old, new), old non-empty.
replace(s, old, new) ==
  IF \E i \in 1..Len(s) : MatchAt(s, old, i)
  THEN ReplaceFrom(s, old, new, 1)
  ELSE s

\* re.sub(r'\b<old>\b', new, s) from index i on.
RECURSIVE SubWordFrom(_, _, _, _)
SubWordFrom(s, old, new, i) ==
  IF i > Len(s) THEN <<>>
  ELSE IF /\ MatchAt(s, old, i)
          /\ WordBoundary(s, i - 1)
          /\ WordBoundary(s, i + Len(old) - 1)
       THEN new \o SubWordFrom(s, old, new, i + Len(old))
       ELSE <<s[i]>> \o SubWordFrom(s, old, new, i + 1)

\* re.sub(r'\b<old>\b', new, s)
sub_word(s, old, new) ==
  IF \E i \in 1..Len(s) : MatchAt(s, old, i)
  THEN SubWordFrom(s, old, new, 1)
  ELSE s

\* The match of a regular expression at index i: the first of its alternatives
\* that occurs there (<<>> when none does).
MatchOf(alts, s, i) ==
  IF \E a \in 1..Len(alts) : MatchAt(s, alts[a], i)
  THEN alts[CHOOSE a \in 1..Len(alts) :
              /\ MatchAt(s, alts[a], i)
              /\ \A b \in 1..(a - 1) : ~MatchAt(s, alts[b], i)]
  ELSE <<>>

\* re.sub(pattern, "", s) from index i on.
RECURSIVE RemoveFrom(_, _, _)
RemoveFrom(s, alts, i) ==
  IF i > Len(s) THEN <<>>
  ELSE IF MatchOf(alts, s, i) # <<>>
       THEN RemoveFrom(s, alts, i + Len(MatchOf(alts, s, i)))
       ELSE <<s[i]>> \o RemoveFrom(s, alts, i + 1)

\* re.sub(pattern, "", s)
remove(s, alts) ==
  IF \E i \in 1..Len(s) : MatchOf(alts, s, i) # <<>>
  THEN RemoveFrom(s, alts, 1)
  ELSE s

\* re.sub(r'\s+', ' ', s) from index i on: each maximal run of whitespace
\* becomes one space.
RECURSIVE CollapseFrom(_, _)
CollapseFrom(s, i) ==
  IF i > Len(s) THEN <<>>
  ELSE IF s[i] \in Whitespace
       THEN IF i > 1 /\ s[i - 1] \in Whitespace
            THEN CollapseFrom(s, i + 1)
            ELSE <<" ">> \o CollapseFrom(s, i + 1)
       ELSE <<s[i]>> \o CollapseFrom(s, i + 1)

\* str.strip()
strip(s) ==
  LET inner == {i \in 1..Len(s) : s[i] \notin Whitespace}
  IN  IF inner = {} THEN <<>>
      ELSE LET first == CHOOSE i \in inner : \A j \in inner : i <= j
               last == CHOOSE i \in inner : \A j \in inner : i >= j
           IN  SubSeq(s, first, last)

\* ' '.join(re.findall(math_pattern, s)) from index i on: the maximal runs of
\* MathChars, a space between two runs.  started: a run has been emitted.
RECURSIVE JoinMatchesFrom(_, _, _)
JoinMatchesFrom(s, i, started) ==
  IF i > Len(s) THEN <<>>
  ELSE IF s[i] \in MathChars
       THEN (IF started /\ s[i - 1] \notin MathChars THEN <<" ">> ELSE <<>>)
            \o <<s[i]>> \o JoinMatchesFrom(s, i + 1, TRUE)
       ELSE JoinMatchesFrom(s, i + 1, started)

\* The regular expressions of patterns_to_remove, in list order.  Each is given
\* by the literal strings it matches, in the order the regex engine prefers
\* them at one position (an optional part is greedy: present before absent).
patterns_to_remove ==
  << <<<<"w", "h", "a", "t", "'", "s", " ">>, <<"w", "h", "a", "t", " ", "i", "s", " ">>>>,
     <<<<"c", "a", "l", "c", "u", "l", "a", "t", "e", " ">>>>,
     <<<<"c", "o", "m", "p", "u", "t", "e", " ">>>>,
     <<<<"f", "i", "n", "d", " ">>>>,
     <<<<"s", "o", "l", "v", "e", " ">>>>,
     <<<<"e", "v", "a", "l", "u", "a", "t", "e", " ">>>>,
     <<<<"h", "o", "w", " ", "m", "u", "c", "h", " ", "i", "s", " ">>>>,
     <<<<"w", "h", "a", "t", " ", "d", "o", "e", "s", " ">>>>,
     <<<<" ", "e", "q", "u", "a", "l", "?">>, <<" ", "e", "q", "u", "a", "l">>>>,
     <<<<" ", "e", "q", "u", "a", "l", "s", "?">>, <<" ", "e", "q", "u", "a", "l", "s">>, <<" ", "e", "q", "u", "a", "l", "?">>, <<" ", "e", "q", "u", "a", "l">>>>,
     <<<<"?">>>> >>

\* The dict word_to_num as <<word, num>> pairs in insertion (= iteration) order.
word_to_num ==
  << <<<<"z", "e", "r", "o">>, <<"0">>>>,
     <<<<"o", "n", "e">>, <<"1">>>>,
     <<<<"t", "w", "o">>, <<"2">>>>,
     <<<<"t", "h", "r", "e", "e">>, <<"3">>>>,
     <<<<"f", "o", "u", "r">>, <<"4">>>>,
     <<<<"f", "i", "v", "e">>, <<"5">>>>,
     <<<<"s", "i", "x">>, <<"6">>>>,
     <<<<"s", "e", "v", "e", "n">>, <<"7">>>>,
     <<<<"e", "i", "g", "h", "t">>, <<"8">>>>,
     <<<<"n", "i", "n", "e">>, <<"9">>>>,
     <<<<"t", "e", "n">>, <<"1", "0">>>>,
     <<<<"e", "l", "e", "v", "e", "n">>, <<"1", "1">>>>,
     <<<<"t", "w", "e", "l", "v", "e">>, <<"1", "2">>>>,
     <<<<"t", "h", "i", "r", "t", "e", "e", "n">>, <<"1", "3">>>>,
     <<<<"f", "o", "u", "r", "t", "e", "e", "n">>, <<"1", "4">>>>,
     <<<<"f", "i", "f", "t", "e", "e", "n">>, <<"1", "5">>>>,
     <<<<"s", "i", "x", "t", "e", "e", "n">>, <<"1", "6">>>>,
     <<<<"s", "e", "v", "e", "n", "t", "e", "e", "n">>, <<"1", "7">>>>,
     <<<<"e", "i", "g", "h", "t", "e", "e", "n">>, <<"1", "8">>>>,
     <<<<"n", "i", "n", "e", "t", "e", "e", "n">>, <<"1", "9">>>>,
     <<<<"t", "w", "e", "n", "t", "y">>, <<"2", "0">>>>,
     <<<<"t", "h", "i", "r", "t", "y">>, <<"3", "0">>>>,
     <<<<"f", "o", "r", "t", "y">>, <<"4", "0">>>>,
     <<<<"f", "i", "f", "t", "y">>, <<"5", "0">>>>,
     <<<<"s", "i", "x", "t", "y">>, <<"6", "0">>>>,
     <<<<"s", "e", "v", "e", "n", "t", "y">>, <<"7", "0">>>>,
     <<<<"e", "i", "g", "h", "t", "y">>, <<"8", "0">>>>,
     <<<<"n", "i", "n", "e", "t", "y">>, <<"9", "0">>>>,
     <<<<"h", "u", "n", "d", "r", "e", "d">>, <<"1", "0", "0">>>>,
     <<<<"t", "h", "o", "u", "s", "a", "n", "d">>, <<"1", "0", "0", "0">>>>,
     <<<<"m", "i", "l", "l", "i", "o", "n">>, <<"1", "0", "0", "0", "0", "0", "0">>>> >>

\* The re.sub(r'\b<phrase>\b', <symbol>, expression) lines, as <<phrase, symbol>>
\* pairs in the order they are applied.
operator_phrases ==
  << <<<<"p", "l", "u", "s">>, <<"+">>>>,
     <<<<"a", "d", "d", "e", "d", " ", "t", "o">>, <<"+">>>>,
     <<<<"a", "d", "d">>, <<"+">>>>,
     <<<<"m", "i", "n", "u", "s">>, <<"-">>>>,
     <<<<"s", "u", "b", "t", "r", "a", "c", "t", "e", "d", " ", "f", "r", "o", "m">>, <<"-">>>>,
     <<<<"s", "u", "b", "t", "r", "a", "c", "t">>, <<"-">>>>,
     <<<<"t", "i", "m", "e", "s">>, <<"*">>>>,
     <<<<"m", "u", "l", "t", "i", "p", "l", "i", "e", "d", " ", "b", "y">>, <<"*">>>>,
     <<<<"m", "u", "l", "t", "i", "p", "l", "y">>, <<"*">>>>,
     <<<<"d", "i", "v", "i", "d", "e", "d", " ", "b", "y">>, <<"/">>>>,
     <<<<"d", "i", "v", "i", "d", "e">>, <<"/">>>>,
     <<<<"t", "o", " ", "t", "h", "e", " ", "p", "o", "w", "e", "r", " ", "o", "f">>, <<"*", "*">>>>,
     <<<<"s", "q", "u", "a", "r", "e", "d">>, <<"*", "*", "2">>>>,
     <<<<"c", "u", "b", "e", "d">>, <<"*", "*", "3">>>>,
     <<<<"s", "q", "u", "a", "r", "e", " ", "r", "o", "o", "t", " ", "o", "f">>, <<"s", "q", "r", "t">>>>,
     <<<<"m", "o", "d", "u", "l", "o">>, <<"%">>>>,
     <<<<"m", "o", "d">>, <<"%">>>> >>

\* The four expression.replace(<phrase>, <parenthesis>) lines, in order.
parenthesis_phrases ==
  << <<<<"o", "p", "e", "n", " ", "p", "a", "r", "e", "n", "t", "h", "e", "s", "i", "s">>, <<"(">>>>,
     <<<<"c", "l", "o", "s", "e", " ", "p", "a", "r", "e", "n", "t", "h", "e", "s", "i", "s">>, <<")">>>>,
     <<<<"l", "e", "f", "t", " ", "p", "a", "r", "e", "n", "t", "h", "e", "s", "i", "s">>, <<"(">>>>,
     <<<<"r", "i", "g", "h", "t", " ", "p", "a", "r", "e", "n", "t", "h", "e", "s", "i", "s">>, <<")">>>> >>

(***************************************************************************)
(* parse_math_question: the natural-language normalizer.                   *)
(***************************************************************************)
RECURSIVE RemovePatterns(_, _)
\* for pattern in patterns_to_remove: expression = re.sub(pattern, "", expression)
RemovePatterns(s, k) ==
  IF s = <<>> \/ k > Len(patterns_to_remove) THEN s
  ELSE RemovePatterns(remove(s, patterns_to_remove[k]), k + 1)

RECURSIVE ReplaceWords(_, _, _)
\* for word, num in word_to_num.items(): expression = expression.replace(word, num)
ReplaceWords(s, table, k) ==
  IF s = <<>> \/ k > Len(table) THEN s
  ELSE ReplaceWords(replace(s, table[k][1], table[k][2]), table, k + 1)

RECURSIVE SubOperators(_, _)
\* the seventeen re.sub(r'\b...\b', ...) lines
SubOperators(s, k) ==
  IF s = <<>> \/ k > Len(operator_phrases) THEN s
  ELSE SubOperators(sub_word(s, operator_phrases[k][1], operator_phrases[k][2]), k + 1)

\* matches = re.findall(math_pattern, expression)
\* if matches: expression = ' '.join(matches)
extract_math(s) ==
  IF \E i \in 1..Len(s) : s[i] \in MathChars
  THEN JoinMatchesFrom(s, 1, FALSE)
  ELSE s

\* A normalizer that lacks the last line, expression.replace(' ', '')
parse_keeping_spaces(question) ==
  LET removed == RemovePatterns(lower(question), 1)
      numbered == ReplaceWords(removed, word_to_num, 1)
      symbolic == SubOperators(numbered, 1)
      parenthesized == ReplaceWords(symbolic, parenthesis_phrases, 1)
      collapsed == strip(CollapseFrom(parenthesized, 1))
      extracted == extract_math(collapsed)
  IN  replace(extracted, <<"^">>, <<"*", "*">>)

parse_math_question(question) ==
  LET removed == RemovePatterns(lower(question), 1)
      numbered == ReplaceWords(removed, word_to_num, 1)
      symbolic == SubOperators(numbered, 1)
      parenthesized == ReplaceWords(symbolic, parenthesis_phrases, 1)
      collapsed == strip(CollapseFrom(parenthesized, 1))
      extracted == extract_math(collapsed)
      powered == replace(extracted, <<"^">>, <<"*", "*">>)
  IN  replace(powered, <<" ">>, <<>>)

(***************************************************************************)
(* Python numbers.                                                         *)
(*                                                                         *)
(* A value is a record [k, s, n, d, x, t]:                                 *)
(*   k  the Python type: "int", "bool" or "float" (other constants of the  *)
(*      syntax tree use "str", "complex", "NoneType");                     *)
(*   s  "fin": the number (n / d) * 2^x, kept in lowest terms with n and d *)
(*             odd (zero is 0/1 * 2^0);                                    *)
(*      "inf": the float infinity of sign n;  "nan": the float NaN;        *)
(*      "sym": a finite number whose value is not computed (pi, e, the     *)
(*             results of the transcendental functions and what is         *)
(*             computed from them): t = <<term, lo, hi>>, the term that    *)
(*             identifies it and two bounds lo <= value <= hi.             *)
(* An int is exact, as in Python.  A finite float is modelled by the exact *)
(* number it approximates: the range of a double (overflow to infinity or  *)
(* OverflowError) is modelled, the rounding of its 53-bit mantissa and     *)
(* gradual underflow are not.  What the code does with a symbolic number   *)
(* follows from its bounds; where the bounds do not decide it (the sign of *)
(* a number whose bounds enclose zero), the model has no value: the CHOOSE *)
(* of Compare has no witness and the evaluation stops.                     *)
(***************************************************************************)
\* sys.float_info.max_exp: a double is finite iff its magnitude is below 2^1024.
DBL_MAX_EXP == 1024

\* sys.float_info.mant_dig
DBL_MANT_DIG == 53

Abs(i) == IF i < 0 THEN -i ELSE i

Sign(i) == IF i < 0 THEN -1 ELSE IF i > 0 THEN 1 ELSE 0

RECURSIVE GCD(_, _)
GCD(a, b) == IF b = 0 THEN a ELSE GCD(b, a % b)

\* The largest p with 2^p dividing m (m # 0).
RECURSIVE TwoAdic(_)
TwoAdic(m) == IF m % 2 = 1 THEN 0 ELSE 1 + TwoAdic(m \div 2)

Zero == [n |-> 0, d |-> 1, x |-> 0]

One == [n |-> 1, d |-> 1, x |-> 0]

Two == [n |-> 1, d |-> 1, x |-> 1]

\* (n / d) * 2^x with the powers of two 2^pn of n and 2^pd of d moved to x
Shifted(n, d, x, pn, pd) ==
  [n |-> n \div (2 ^ pn), d |-> d \div (2 ^ pd), x |-> x + pn - pd]

\* (n / d) * 2^x in normal form, n / d in lowest terms (n # 0, d > 0)
OddParts(n, d, x) == Shifted(n, d, x, TwoAdic(n), TwoAdic(d))

\* (n / d) * 2^x in normal form, g the greatest common divisor of n and d
Lowest(n, d, x, g) == OddParts(n \div g, d \div g, x)

\* (n / d) * 2^x in normal form (d > 0).
Norm(n, d, x) == IF n = 0 THEN Zero ELSE Lowest(n, d, x, GCD(Abs(n), d))

\* floor(log2(n / d)) for n, d > 0.
RECURSIVE Log2Up(_, _)
Log2Up(n, d) == IF n < 2 * d THEN 0 ELSE 1 + Log2Up(n, 2 * d)

RECURSIVE Log2Down(_, _)
Log2Down(n, d) == IF n >= d THEN 0 ELSE 1 + Log2Down(2 * n, d)

Log2Ratio(n, d) == IF n >= d THEN Log2Up(n, d) ELSE -Log2Down(n, d)

\* floor(log2 |q|) of a non-zero number.
Log2Floor(q) == q.x + Log2Ratio(Abs(q.n), q.d)

QIsZero(q) == q.n = 0

QNeg(q) == [n |-> -q.n, d |-> q.d, x |-> q.x]

QMul(a, b) == Norm(a.n * b.n, a.d * b.d, a.x + b.x)

\* a / b, b non-zero
QDiv(a, b) == Norm(Sign(b.n) * a.n * b.d, a.d * Abs(b.n), a.x - b.x)

\* a + b, both non-zero, m the smaller of their exponents
Sum(a, b, m) ==
  Norm(a.n * (2 ^ (a.x - m)) * b.d + b.n * (2 ^ (b.x - m)) * a.d, a.d * b.d, m)

QAdd(a, b) ==
  IF a.n = 0 THEN b
  ELSE IF b.n = 0 THEN a
  ELSE Sum(a, b, IF a.x < b.x THEN a.x ELSE b.x)

QSub(a, b) == QAdd(a, QNeg(b))

\* a < b for two numbers of the same sign whose binary exponents are ea and eb
LessBy(a, b, ea, eb) == IF ea # eb THEN (ea < eb) = (a.n > 0) ELSE QSub(a, b).n < 0

QLess(a, b) ==
  IF a.n = 0 \/ b.n = 0 \/ Sign(a.n) # Sign(b.n) THEN Sign(a.n) < Sign(b.n)
  ELSE LessBy(a, b, Log2Floor(a), Log2Floor(b))

\* floor(q), as a number
QFloor(q) ==
  Norm((IF q.x >= 0 THEN (q.n * (2 ^ q.x)) \div q.d
                    ELSE q.n \div (q.d * (2 ^ (-q.x)))), 1, 0)

QIsIntegral(q) == q.d = 1 /\ q.x >= 0

\* b ^ e for integers b and e >= 0 (with 0 ^ 0 = 1, as in Python)
IntPow(b, e) ==
  IF e = 0 THEN 1
  ELSE IF b < 0 THEN (IF e % 2 = 1 THEN -1 ELSE 1) * ((-b) ^ e)
  ELSE b ^ e

\* q ^ e for an integer e >= 0
QPow(q, e) == Norm(IntPow(q.n, e), IntPow(q.d, e), q.x * e)

\* The integer a whole number stands for (it must fit the model's integers).
QInt(q) == q.n * (2 ^ q.x)

QOf(i) == Norm(i, 1, 0)

Value(k, q) == [k |-> k, s |-> "fin", n |-> q.n, d |-> q.d, x |-> q.x, t |-> <<>>]

Q(v) == [n |-> v.n, d |-> v.d, x |-> v.x]

PyInt(i) == Value("int", QOf(i))

Float(q) == Value("float", q)

Inf(sign) == [k |-> "float", s |-> "inf", n |-> sign, d |-> 1, x |-> 0, t |-> <<>>]

NaN == [k |-> "float", s |-> "nan", n |-> 0, d |-> 1, x |-> 0, t |-> <<>>]

\* A raised exception, as the result of an evaluation.
Raise(type, msg) == [exc |-> type, msg |-> msg]

IsExc(r) == "exc" \in DOMAIN r

IsNumber(v) == ~IsExc(v) /\ v.k \in {"int", "bool", "float"}

IsFloat(v) == v.k = "float"

IsZero(v) == v.s = "fin" /\ v.n = 0

\* Whether a finite number is outside the range of a double.
TooLarge(q) == q.n # 0 /\ Log2Floor(q) >= DBL_MAX_EXP

\* float(v) of an int, a bool or a float
ToFloat(v) ==
  IF IsFloat(v) THEN v
  ELSE IF v.s = "sym" THEN [v EXCEPT !.k = "float"]
  ELSE IF TooLarge(Q(v)) THEN Raise("OverflowError", "int too large to convert to float")
  ELSE Float(Q(v))

\* The double a float operation delivers for the exact result q: infinity
\* when q is out of range.
Rounded(q) == IF TooLarge(q) THEN Inf(Sign(q.n)) ELSE Float(q)

\* The bounds of a finite number
Bounds(lo, hi) == [lo |-> lo, hi |-> hi]

Point(q) == Bounds(q, q)

BoundsOf(v) == IF v.s = "sym" THEN Bounds(v.t[2], v.t[3]) ELSE Point(Q(v))

Lo(v) == BoundsOf(v).lo

Hi(v) == BoundsOf(v).hi

\* The binary digits of a bound
SYM_BITS == 10

\* The largest number of SYM_BITS binary digits that is not above q, whose
\* binary exponent is e
Truncated(q, e) ==
  Norm(QInt(QFloor(Norm(q.n, q.d, q.x + SYM_BITS - 1 - e))), 1, e + 1 - SYM_BITS)

Down(q) == IF q.n = 0 THEN q ELSE Truncated(q, Log2Floor(q))

Up(q) == QNeg(Down(QNeg(q)))

\* The float between the bounds b that the term identifies: the exact float
\* when the bounds meet.
Sym(term, b) ==
  IF b.lo = b.hi THEN Rounded(b.lo)
  ELSE IF TooLarge(b.lo) /\ TooLarge(b.hi) /\ Sign(b.lo.n) = Sign(b.hi.n)
       THEN Inf(Sign(b.lo.n))
  ELSE [k |-> "float", s |-> "sym", n |-> 0, d |-> 1, x |-> 0,
        t |-> <<term, Down(b.lo), Up(b.hi)>>]

Least(S) == CHOOSE q \in S : \A r \in S : ~QLess(r, q)

Greatest(S) == CHOOSE q \in S : \A r \in S : ~QLess(q, r)

Hull(S) == Bounds(Least(S), Greatest(S))

\* The bounds of Op(x, y) for x within a and y within b, Op monotone in each
\* argument
Corners(Op(_, _), a, b) == Hull({Op(x, y) : x \in {a.lo, a.hi}, y \in {b.lo, b.hi}})

\* The sign of v - q for a finite v
Compare(v, q) ==
  CHOOSE c \in {-1, 0, 1} :
    IF v.s = "sym" THEN (c = 1 /\ QLess(q, Lo(v))) \/ (c = -1 /\ QLess(Hi(v), q))
    ELSE c = (IF QLess(Q(v), q) THEN -1 ELSE IF QLess(q, Q(v)) THEN 1 ELSE 0)

\* The sign of a number that is not NaN
SignOf(v) == IF v.s = "inf" THEN v.n ELSE Compare(v, Zero)

(***************************************************************************)
(* The functions of the operator module that SAFE_OPERATIONS names.  Each  *)
(* takes values and returns a value or a raised exception.                 *)
(***************************************************************************)
\* Both operands are int (or bool): the operation is the exact int operation.
BothInt(a, b) == ~IsFloat(a) /\ ~IsFloat(b) /\ a.s = "fin" /\ b.s = "fin"

\* A complex number (a negative float raised to a fractional power); its
\* value is not tracked.
Complex == [k |-> "complex", s |-> "sym", n |-> 0, d |-> 1, x |-> 0, t |-> <<>>]

IsComplex(v) == v.k = "complex"

\* A float operation on two finite numbers one of which is symbolic
Symbolic(op, Op(_, _), a, b) == Sym(<<op, a, b>>, Corners(Op, BoundsOf(a), BoundsOf(b)))

\* a + b on two finite non-zero floats whose binary exponents differ by gap:
\* an operand below half a unit in the last place of the other is absorbed.
AddFinite(a, b, gap) ==
  IF gap > DBL_MANT_DIG THEN a
  ELSE IF -gap > DBL_MANT_DIG THEN b
  ELSE Rounded(QAdd(Q(a), Q(b)))

\* a + b on two floats
FloatAdd(a, b) ==
  IF a.s = "inf" /\ b.s = "inf" THEN (IF a.n = b.n THEN a ELSE NaN)
  ELSE IF a.s = "nan" \/ b.s = "nan" THEN NaN
  ELSE IF a.s = "inf" THEN a
  ELSE IF b.s = "inf" THEN b
  ELSE IF IsZero(a) THEN b
  ELSE IF IsZero(b) THEN a
  ELSE IF a.s = "sym" \/ b.s = "sym" THEN Symbolic("add", QAdd, a, b)
  ELSE AddFinite(a, b, Log2Floor(Q(a)) - Log2Floor(Q(b)))

FloatNeg(a) ==
  IF a.s = "inf" THEN Inf(-a.n)
  ELSE IF a.s = "nan" THEN NaN
  ELSE IF a.s = "sym" THEN Sym(<<"neg", a>>, Bounds(QNeg(Hi(a)), QNeg(Lo(a))))
  ELSE Float(QNeg(Q(a)))

FloatMul(a, b) ==
  IF a.s = "nan" \/ b.s = "nan" THEN NaN
  ELSE IF a.s = "inf" \/ b.s = "inf"
       THEN (IF IsZero(a) \/ IsZero(b) THEN NaN ELSE Inf(SignOf(a) * SignOf(b)))
  ELSE IF a.s = "sym" \/ b.s = "sym" THEN Symbolic("mul", QMul, a, b)
  ELSE Rounded(QMul(Q(a), Q(b)))

\* a / b on two floats, b not zero
FloatDiv(a, b) ==
  IF a.s = "nan" \/ b.s = "nan" THEN NaN
  ELSE IF a.s = "inf" THEN (IF b.s = "inf" THEN NaN ELSE Inf(a.n * SignOf(b)))
  ELSE IF b.s = "inf" THEN Float(Zero)
  ELSE IF SignOf(b) # 0 /\ (a.s = "sym" \/ b.s = "sym")
       THEN Symbolic("truediv", QDiv, a, b)
  ELSE Rounded(QDiv(Q(a), Q(b)))

\* A float operation on the two converted operands: the conversion of an int
\* may have raised OverflowError.
OnFloats(Op(_, _), a, b) ==
  IF IsExc(a) THEN a ELSE IF IsExc(b) THEN b ELSE Op(a, b)

\* Applies a float operation to two numbers after converting both to float.
Coerced(Op(_, _), a, b) == OnFloats(Op, ToFloat(a), ToFloat(b))

operator_add(a, b) ==
  IF IsComplex(a) \/ IsComplex(b) THEN Complex
  ELSE IF BothInt(a, b) THEN Value("int", QAdd(Q(a), Q(b)))
  ELSE Coerced(FloatAdd, a, b)

FloatSub(a, b) == FloatAdd(a, FloatNeg(b))

operator_sub(a, b) ==
  IF IsComplex(a) \/ IsComplex(b) THEN Complex
  ELSE IF BothInt(a, b) THEN Value("int", QSub(Q(a), Q(b)))
  ELSE Coerced(FloatSub, a, b)

operator_mul(a, b) ==
  IF IsComplex(a) \/ IsComplex(b) THEN Complex
  ELSE IF BothInt(a, b) THEN Value("int", QMul(Q(a), Q(b)))
  ELSE Coerced(FloatMul, a, b)

FloatTrueDiv(a, b) ==
  IF IsZero(b) THEN Raise("ZeroDivisionError", "float division by zero")
  ELSE FloatDiv(a, b)

\* int / int with the exact quotient q: the float, when it is in range
IntTrueDiv(q) ==
  IF TooLarge(q)
  THEN Raise("OverflowError", "integer division result too large for a float")
  ELSE Float(q)

\* The division of Python 2, operator.div: int / int is the floor of the quotient
operator_div(a, b) ==
  IF BothInt(a, b) /\ ~IsZero(b) THEN Value("int", QFloor(QDiv(Q(a), Q(b))))
  ELSE IF BothInt(a, b) THEN Raise("ZeroDivisionError", "integer division or modulo by zero")
  ELSE Coerced(FloatTrueDiv, a, b)

operator_truediv(a, b) ==
  IF IsComplex(a) \/ IsComplex(b)
  THEN (IF IsZero(b) THEN Raise("ZeroDivisionError", "complex division by zero")
        ELSE Complex)
  ELSE IF BothInt(a, b)
  THEN IF IsZero(b) THEN Raise("ZeroDivisionError", "division by zero")
       ELSE IntTrueDiv(QDiv(Q(a), Q(b)))
  ELSE Coerced(FloatTrueDiv, a, b)

\* The whole numbers below the bounds
Floors(b) == Bounds(QFloor(b.lo), QFloor(b.hi))

\* The bounds of floor(a / b), b not zero
Quotients(a, b) == Floors(Corners(QDiv, BoundsOf(a), BoundsOf(b)))

\* a // b on two floats
FloatFloorDiv(a, b) ==
  IF IsZero(b) THEN Raise("ZeroDivisionError", "float floor division by zero")
  ELSE IF a.s = "nan" \/ b.s = "nan" \/ a.s = "inf" THEN NaN
  ELSE IF b.s = "inf"
       THEN (IF IsZero(a) \/ SignOf(a) = b.n THEN Float(Zero) ELSE Float(QNeg(One)))
  ELSE IF SignOf(b) # 0 /\ (a.s = "sym" \/ b.s = "sym")
       THEN Sym(<<"floordiv", a, b>>, Quotients(a, b))
  ELSE Rounded(QFloor(QDiv(Q(a), Q(b))))

operator_floordiv(a, b) ==
  IF IsComplex(a) \/ IsComplex(b)
  THEN Raise("TypeError", "unsupported operand type(s): 'complex'")
  ELSE IF BothInt(a, b)
  THEN IF IsZero(b)
       THEN Raise("ZeroDivisionError", "integer division or modulo by zero")
       ELSE Value("int", QFloor(QDiv(Q(a), Q(b))))
  ELSE Coerced(FloatFloorDiv, a, b)

\* a - b * floor(a / b): the remainder with the sign of the divisor
QMod(a, b) == QSub(a, QMul(b, QFloor(QDiv(a, b))))

\* The bounds of a % b given the bounds q of floor(a / b): those of a - b * q
\* when the quotient is known, else those of the divisor and zero.
Remainders(a, b, q) ==
  IF q.lo = q.hi
  THEN Corners(QSub, BoundsOf(a), Corners(QMul, BoundsOf(b), q))
  ELSE IF SignOf(b) > 0 THEN Bounds(Zero, Hi(b)) ELSE Bounds(Lo(b), Zero)

\* a % b on two floats
FloatMod(a, b) ==
  IF IsZero(b) THEN Raise("ZeroDivisionError", "float modulo")
  ELSE IF a.s = "nan" \/ b.s = "nan" \/ a.s = "inf" THEN NaN
  ELSE IF b.s = "inf"
       THEN (IF IsZero(a) \/ SignOf(a) = b.n THEN a ELSE b)
  ELSE IF SignOf(b) # 0 /\ (a.s = "sym" \/ b.s = "sym")
       THEN Sym(<<"mod", a, b>>, Remainders(a, b, Quotients(a, b)))
  ELSE Float(QMod(Q(a), Q(b)))

operator_mod(a, b) ==
  IF IsComplex(a) \/ IsComplex(b)
  THEN Raise("TypeError", "unsupported operand type(s): 'complex'")
  ELSE IF BothInt(a, b)
  THEN IF IsZero(b) THEN Raise("ZeroDivisionError", "integer modulo by zero")
       ELSE Value("int", QMod(Q(a), Q(b)))
  ELSE Coerced(FloatMod, a, b)

\* Whether a finite number is a whole number.
IsWhole(v) == v.s = "fin" /\ QIsIntegral(Q(v))

\* q ^ e for any integer e, q non-zero
QPowInt(q, e) == IF e >= 0 THEN QPow(q, e) ELSE QDiv(One, QPow(q, -e))

\* x ^ y for a whole number y
QPowWhole(x, y) == QPowInt(x, QInt(y))

\* The float x ** y between the bounds r
PowResult(a, b, r) ==
  IF TooLarge(r.lo) \/ TooLarge(r.hi)
  THEN Raise("OverflowError", "(34, 'Numerical result out of range')")
  ELSE Sym(<<"pow", a, b>>, r)

\* The whole numbers that enclose the exponent b
Exponents(b) == Bounds(QFloor(Lo(b)), QNeg(QFloor(QNeg(Hi(b)))))

\* Whether the magnitude of a, which is not 1, is above 1
AboveOne(a) == a.s = "inf" \/ Compare(a, One) > 0 \/ Compare(a, QNeg(One)) < 0

\* x ** y on two floats (float_pow)
FloatPow(a, b) ==
  IF IsZero(b) \/ (a.s = "fin" /\ Q(a) = One) THEN Float(One)
  ELSE IF a.s = "nan" \/ b.s = "nan" THEN NaN
  ELSE IF b.s = "inf"
       THEN (IF a.s = "fin" /\ Q(a) = QNeg(One) THEN Float(One)
             ELSE IF AboveOne(a) <=> (b.n > 0) THEN Inf(1) ELSE Float(Zero))
  ELSE IF a.s = "inf"
       THEN (IF SignOf(b) < 0 THEN Float(Zero)
             ELSE IF a.n < 0 /\ IsWhole(b) /\ b.x = 0 THEN Inf(-1) ELSE Inf(1))
  ELSE IF IsZero(a)
       THEN (IF SignOf(b) < 0
             THEN Raise("ZeroDivisionError", "0.0 cannot be raised to a negative power")
             ELSE Float(Zero))
  ELSE IF IsWhole(b) /\ SignOf(a) # 0
       THEN PowResult(a, b, Corners(QPowWhole, BoundsOf(a), BoundsOf(b)))
  ELSE IF SignOf(a) < 0 THEN Complex
  ELSE PowResult(a, b, Corners(QPowWhole, BoundsOf(a), Exponents(b)))

operator_pow(a, b) ==
  IF IsComplex(a) \/ IsComplex(b) THEN Complex
  ELSE IF BothInt(a, b) /\ b.n >= 0 THEN Value("int", QPow(Q(a), QInt(Q(b))))
  ELSE Coerced(FloatPow, a, b)

operator_neg(a) ==
  IF IsComplex(a) THEN Complex
  ELSE IF IsFloat(a) \/ a.s = "sym" THEN FloatNeg(ToFloat(a))
  ELSE Value("int", QNeg(Q(a)))

operator_pos(a) ==
  IF IsComplex(a) THEN Complex
  ELSE IF IsFloat(a) \/ a.s = "sym" THEN a
  ELSE Value("int", Q(a))

(***************************************************************************)
(* The functions SAFE_FUNCTIONS names.  Each takes the sequence of the     *)
(* call's positional arguments.                                            *)
(***************************************************************************)
\* math.pi = 3.14159... and math.e = 2.71828...
PI == Sym(<<"pi">>, Bounds(Norm(201, 64, 0), Norm(805, 256, 0)))

E == Sym(<<"e">>, Bounds(Norm(695, 256, 0), Norm(87, 32, 0)))

DigitChars == <<"0", "1", "2", "3", "4", "5", "6", "7", "8", "9">>

\* str(i) of an int i >= 0
RECURSIVE NatText(_)
NatText(i) ==
  IF i < 10 THEN DigitChars[i + 1] ELSE NatText(i \div 10) \o DigitChars[(i % 10) + 1]

\* A function of one argument called with given # 1 arguments
WrongArity(name, given) ==
  Raise("TypeError",
        name \o "() takes exactly one argument (" \o NatText(given) \o " given)")

DomainError == Raise("ValueError", "math domain error")

\* A function of the math module on its converted argument: the conversion of
\* an int may have raised OverflowError.
OnFloat(Op(_), x) == IF IsExc(x) THEN x ELSE Op(x)

\* The math module converts its argument to a float first.
MathArg(Op(_), name, args) ==
  IF Len(args) # 1 THEN WrongArity("math." \o name, Len(args))
  ELSE IF IsComplex(args[1]) THEN Raise("TypeError", "must be real number, not complex")
  ELSE OnFloat(Op, ToFloat(args[1]))

\* The integer square root of m >= 0, given twice that of m \div 4
RECURSIVE ISqrt(_)
ISqrtNear(m, r) == IF (r + 1) * (r + 1) <= m THEN r + 1 ELSE r

ISqrt(m) == IF m < 2 THEN m ELSE ISqrtNear(m, 2 * ISqrt(m \div 4))

IsSquare(m) == ISqrt(m) * ISqrt(m) = m

\* The binary digits after the point of the bounds of a square root
SQRT_BITS == 6

\* The bounds of the square root of a number from q.lo >= 0 to q.hi, in
\* multiples of 2^-SQRT_BITS
Roots(q) ==
  Bounds(Norm(ISqrt(QInt(QFloor(QMul(q.lo, Norm(1, 1, 2 * SQRT_BITS))))), 1, -SQRT_BITS),
         Norm(ISqrt(QInt(QFloor(QMul(q.hi, Norm(1, 1, 2 * SQRT_BITS))))) + 1, 1, -SQRT_BITS))

sqrt(x) ==
  IF x.s = "nan" THEN NaN
  ELSE IF x.s = "inf" THEN (IF x.n > 0 THEN x ELSE DomainError)
  ELSE IF SignOf(x) < 0 THEN DomainError
  ELSE IF x.s = "fin" /\ x.x % 2 = 0 /\ IsSquare(x.n) /\ IsSquare(x.d)
       THEN Float([n |-> ISqrt(x.n), d |-> ISqrt(x.d), x |-> x.x \div 2])
  ELSE Sym(<<"sqrt", x>>, Roots(BoundsOf(x)))

\* The sine and the cosine are between -1 and 1
Unit == Bounds(QNeg(One), One)

\* The largest finite float is below 2^DBL_MAX_EXP
Finite == Bounds(QNeg(Norm(1, 1, DBL_MAX_EXP)), Norm(1, 1, DBL_MAX_EXP))

sin(x) ==
  IF x.s = "nan" THEN NaN
  ELSE IF x.s = "inf" THEN DomainError
  ELSE IF IsZero(x) THEN x
  ELSE Sym(<<"sin", x>>, Unit)

cos(x) ==
  IF x.s = "nan" THEN NaN
  ELSE IF x.s = "inf" THEN DomainError
  ELSE IF IsZero(x) THEN Float(One)
  ELSE Sym(<<"cos", x>>, Unit)

tan(x) ==
  IF x.s = "nan" THEN NaN
  ELSE IF x.s = "inf" THEN DomainError
  ELSE IF IsZero(x) THEN x
  ELSE Sym(<<"tan", x>>, Finite)

\* 2 ^ i as a number, for any integer i
QPow2(i) == Norm(1, 1, i)

\* The bounds of e ^ x from 2 < e < 4: powers of two
Exponentials(x) ==
  Bounds(QPow2(QInt(QFloor(x.lo)) * (IF x.lo.n < 0 THEN 2 ELSE 1)),
         QPow2(-QInt(QFloor(QNeg(x.hi))) * (IF x.hi.n > 0 THEN 2 ELSE 1)))

\* exp overflows a double above 709.78...
exp(x) ==
  IF x.s = "nan" THEN NaN
  ELSE IF x.s = "inf" THEN (IF x.n > 0 THEN x ELSE Float(Zero))
  ELSE IF IsZero(x) THEN Float(One)
  ELSE IF Compare(x, QOf(709)) > 0 THEN Raise("OverflowError", "math range error")
  ELSE Sym(<<"exp", x>>, Exponentials(BoundsOf(x)))

\* The bounds of the natural logarithm of a number from x.lo > 0 to x.hi:
\* 1 - 1/x <= ln(x) <= x - 1
Logarithms(x) == Bounds(QDiv(QSub(x.lo, One), x.lo), QSub(x.hi, One))

\* The natural logarithm of one number (math.log takes an int of any size).
Ln(x) ==
  IF IsComplex(x) THEN Raise("TypeError", "must be real number, not complex")
  ELSE IF x.s = "nan" THEN NaN
  ELSE IF x.s = "inf" THEN (IF x.n > 0 THEN x ELSE DomainError)
  ELSE IF SignOf(x) <= 0 THEN DomainError
  ELSE IF x.s = "fin" /\ Q(x) = One THEN Float(Zero)
  ELSE Sym(<<"log", x>>, Logarithms(BoundsOf(x)))

\* math.log(x) and math.log(x, base) = log(x) / log(base)
log(args) ==
  IF Len(args) = 1 THEN Ln(args[1])
  ELSE IF Len(args) = 2 THEN OnFloats(FloatTrueDiv, Ln(args[1]), Ln(args[2]))
  ELSE Raise("TypeError", "math.log requires 1 to 2 arguments")

\* The natural logarithm of 10, between 2.25 and 2.375
LN10 == Sym(<<"log", PyInt(10)>>, Bounds(Norm(9, 4, 0), Norm(19, 8, 0)))

\* The number of tens in a power of ten m >= 1, or -1
RECURSIVE Tens(_)
Tens(m) == IF m = 1 THEN 0 ELSE IF m % 10 # 0 THEN -1 ELSE Tens(m \div 10) + 1

IsPowerOfTen(m) == Tens(m) >= 0

\* log10 is exact on the powers of ten
log10(x) ==
  IF x.s = "nan" THEN NaN
  ELSE IF x.s = "inf" THEN (IF x.n > 0 THEN x ELSE DomainError)
  ELSE IF SignOf(x) <= 0 THEN DomainError
  ELSE IF IsWhole(x) /\ IsPowerOfTen(QInt(Q(x))) THEN Float(QOf(Tens(QInt(Q(x)))))
  ELSE FloatDiv(Ln(x), LN10)

\* The type of the result of a function that keeps the type of a number: a
\* bool becomes an int
NumberType(v) == IF IsFloat(v) THEN "float" ELSE "int"

\* The bounds of the magnitude of a number between b.lo and b.hi
Magnitudes(b) ==
  IF b.lo.n >= 0 THEN b
  ELSE IF b.hi.n <= 0 THEN Bounds(QNeg(b.hi), QNeg(b.lo))
  ELSE Bounds(Zero, Greatest({QNeg(b.lo), b.hi}))

\* The builtin abs
abs(args) ==
  IF Len(args) # 1 THEN WrongArity("abs", Len(args))
  ELSE IF IsComplex(args[1]) THEN Sym(<<"abs", args[1]>>, Magnitudes(Finite))
  ELSE IF args[1].s = "nan" THEN NaN
  ELSE IF args[1].s = "inf" THEN Inf(1)
  ELSE IF args[1].s = "sym"
       THEN [Sym(<<"abs", args[1]>>, Magnitudes(BoundsOf(args[1])))
               EXCEPT !.k = NumberType(args[1])]
  ELSE Value(NumberType(args[1]), [n |-> Abs(args[1].n), d |-> args[1].d, x |-> args[1].x])

Nearest(f, above) ==
  IF above < 0 \/ (above = 0 /\ QInt(f) % 2 = 0) THEN f ELSE QAdd(f, One)

\* q between f = floor(q) and f + 1: the sign of (q - f) - 1/2 decides
HalfEven(q, f) == Nearest(f, Sign(QSub(QMul(Two, QSub(q, f)), One).n))

\* The nearest whole number to q, a half going to the even neighbour.
RoundHalfEven(q) == HalfEven(q, QFloor(q))

QCeil(q) == QNeg(QFloor(QNeg(q)))

\* The int between the bounds b that the term identifies
Whole(term, b) ==
  IF b.lo = b.hi THEN Value("int", b.lo)
  ELSE [k |-> "int", s |-> "sym", n |-> 0, d |-> 1, x |-> 0, t |-> <<term, b.lo, b.hi>>]

\* float.__round__, float.__floor__, float.__ceil__ without ndigits: the int
\* ToInt makes of the number
ToWhole(ToInt(_), name, x) ==
  IF IsComplex(x) THEN Raise("TypeError", "must be real number, not complex")
  ELSE IF x.s = "nan" THEN Raise("ValueError", "cannot convert float NaN to integer")
  ELSE IF x.s = "inf"
       THEN Raise("OverflowError", "cannot convert float infinity to integer")
  ELSE Whole(<<name, x>>, Bounds(ToInt(Lo(x)), ToInt(Hi(x))))

floor(args) ==
  IF Len(args) # 1 THEN WrongArity("math.floor", Len(args))
  ELSE ToWhole(QFloor, "floor", args[1])

ceil(args) ==
  IF Len(args) # 1 THEN WrongArity("math.ceil", Len(args))
  ELSE ToWhole(QCeil, "ceil", args[1])

\* 10 ^ i as a number, for any integer i
QPow10(i) == IF i >= 0 THEN QOf(10 ^ i) ELSE QDiv(One, QOf(10 ^ (-i)))

\* x rounded at 10^-nd
RoundTo(x, nd) == QMul(RoundHalfEven(QMul(x, QPow10(QInt(nd)))), QPow10(-QInt(nd)))

\* round(x, nd) of a number x and an int nd: it has the type of x
Rounding(x, nd) ==
  IF IsFloat(nd) THEN Raise("TypeError", "'float' object cannot be interpreted as an integer")
  ELSE IF x.s \in {"nan", "inf"} THEN x
  ELSE IF ~IsFloat(x) /\ x.s = "fin" /\ nd.s = "fin" /\ nd.n >= 0 THEN Value("int", Q(x))
  ELSE [Sym(<<"round", x, nd>>, Corners(RoundTo, BoundsOf(x), BoundsOf(nd)))
          EXCEPT !.k = NumberType(x)]

\* The builtin round: round(x) is an int, round(x, ndigits) has the type of x.
round(args) ==
  IF Len(args) = 0
  THEN Raise("TypeError", "round() missing required argument 'number' (pos 1)")
  ELSE IF Len(args) > 2
  THEN Raise("TypeError", "round() takes at most 2 arguments ("
                          \o NatText(Len(args)) \o " given)")
  ELSE IF IsComplex(args[1])
  THEN Raise("TypeError", "type complex doesn't define __round__ method")
  ELSE IF Len(args) = 1 THEN ToWhole(RoundHalfEven, "round", args[1])
  ELSE IF IsComplex(args[2])
  THEN Raise("TypeError", "'complex' object cannot be interpreted as an integer")
  ELSE Rounding(args[1], args[2])

SAFE_FUNCTIONS ==
  {<<"s", "i", "n">>, <<"c", "o", "s">>, <<"t", "a", "n">>, <<"s", "q", "r", "t">>,
   <<"l", "o", "g">>, <<"l", "o", "g", "1", "0">>, <<"e", "x", "p">>, <<"a", "b", "s">>,
   <<"r", "o", "u", "n", "d">>, <<"f", "l", "o", "o", "r">>, <<"c", "e", "i", "l">>}

\* SAFE_FUNCTIONS[name](*args)
call_function(name, args) ==
  CASE name = <<"s", "i", "n">> -> MathArg(sin, "sin", args)
    [] name = <<"c", "o", "s">> -> MathArg(cos, "cos", args)
    [] name = <<"t", "a", "n">> -> MathArg(tan, "tan", args)
    [] name = <<"s", "q", "r", "t">> -> MathArg(sqrt, "sqrt", args)
    [] name = <<"l", "o", "g">> -> log(args)
    [] name = <<"l", "o", "g", "1", "0">> -> MathArg(log10, "log10", args)
    [] name = <<"e", "x", "p">> -> MathArg(exp, "exp", args)
    [] name = <<"a", "b", "s">> -> abs(args)
    [] name = <<"r", "o", "u", "n", "d">> -> round(args)
    [] name = <<"f", "l", "o", "o", "r">> -> floor(args)
    [] name = <<"c", "e", "i", "l">> -> ceil(args)
(***************************************************************************)
(* Syntax trees.  A node is a record with the field "type", the name of    *)
(* its ast class; a node the evaluator has no visitor for keeps only its   *)
(* type and its children.                                                  *)
(***************************************************************************)
Constant(value) == [type |-> "Constant", value |-> value]

Name(id) == [type |-> "Name", id |-> id]

BinOp(left, op, right) == [type |-> "BinOp", left |-> left, op |-> op, right |-> right]

UnaryOp(op, operand) == [type |-> "UnaryOp", op |-> op, operand |-> operand]

\* keywords is the sequence of the values of the keyword arguments
Call(func, args, keywords) ==
  [type |-> "Call", func |-> func, args |-> args, keywords |-> keywords]

Node(type, children) == [type |-> type, children |-> children]

\* A constant that is not a number: its Python type k and its str() text.
NotNumber(k, text) == [k |-> k, s |-> "fin", n |-> 0, d |-> 1, x |-> 0, t |-> <<text>>]

Bool(b) == Value("bool", QOf(IF b THEN 1 ELSE 0))

SAFE_OPERATIONS ==
  {"Add", "Sub", "Mult", "Div", "Pow", "Mod", "FloorDiv", "USub", "UAdd"}

\* SAFE_OPERATIONS[op_type](left, right)
apply_binary(op, left, right) ==
  CASE op = "Add" -> operator_add(left, right)
    [] op = "Sub" -> operator_sub(left, right)
    [] op = "Mult" -> operator_mul(left, right)
    [] op = "Div" -> operator_truediv(left, right)
    [] op = "Pow" -> operator_pow(left, right)
    [] op = "Mod" -> operator_mod(left, right)
    [] op = "FloorDiv" -> operator_floordiv(left, right)
    \* operator.neg and operator.pos take one argument
    [] OTHER -> Raise("TypeError", "expected 1 argument, got 2")

\* SAFE_OPERATIONS[op_type](operand)
apply_unary(op, operand) ==
  CASE op = "USub" -> operator_neg(operand)
    [] op = "UAdd" -> operator_pos(operand)
    [] OTHER -> Raise("TypeError", "expected 2 arguments, got 1")

RECURSIVE Text(_)
Text(s) == IF s = <<>> THEN "" ELSE s[1] \o Text(Tail(s))

(***************************************************************************)
(* MathEvaluator.  visit(node) is the number the visitor returns or the    *)
(* exception it raises.                                                    *)
(***************************************************************************)
generic_visit(node) == Raise("ValueError", "Unsupported expression: " \o node.type)

visit_Constant(node) ==
  IF node.value.k \in {"int", "bool", "float"} THEN node.value
  ELSE Raise("ValueError", "Unsupported constant: " \o node.value.t[1])

visit_Name(node) ==
  IF node.id = <<"p", "i">> THEN PI
  ELSE IF node.id = <<"e">> THEN E
  ELSE Raise("ValueError", "Unknown variable: " \o Text(node.id))

RECURSIVE visit(_)
RECURSIVE visit_args(_, _, _)

visit_BinOp(node) ==
  LET left == visit(node.left)
  IN  IF IsExc(left) THEN left
      ELSE LET right == visit(node.right)
           IN  IF IsExc(right) THEN right
               ELSE IF node.op \in SAFE_OPERATIONS
                    THEN apply_binary(node.op, left, right)
                    ELSE Raise("ValueError", "Unsupported operation: " \o node.op)

visit_UnaryOp(node) ==
  LET operand == visit(node.operand)
  IN  IF IsExc(operand) THEN operand
      ELSE IF node.op \in SAFE_OPERATIONS
           THEN apply_unary(node.op, operand)
           ELSE Raise("ValueError", "Unsupported operation: " \o node.op)

\* [self.visit(arg) for arg in node.args]: the values, or the first exception
visit_args(args, i, done) ==
  IF i > Len(args) THEN [values |-> done]
  ELSE LET arg == visit(args[i])
       IN  IF IsExc(arg) THEN arg ELSE visit_args(args, i + 1, Append(done, arg))

visit_Call(node) ==
  IF node.func.type = "Name" /\ node.func.id \in SAFE_FUNCTIONS
  THEN LET args == visit_args(node.args, 1, <<>>)
       IN  IF IsExc(args) THEN args ELSE call_function(node.func.id, args.values)
  ELSE Raise("ValueError", "Unsupported function: " \o
             (IF node.func.type = "Name" THEN Text(node.func.id) ELSE "unknown"))

visit(node) ==
  CASE node.type = "BinOp" -> visit_BinOp(node)
    [] node.type = "UnaryOp" -> visit_UnaryOp(node)
    [] node.type = "Constant" -> visit_Constant(node)
    [] node.type = "Name" -> visit_Name(node)
    [] node.type = "Call" -> visit_Call(node)
    [] OTHER -> generic_visit(node)

(***************************************************************************)
(* ast.parse(expr, mode='eval'): the tokens of the expression, then the    *)
(* expression grammar of Python by recursive descent.                      *)
(*                                                                         *)
(* The tokenizer knows the characters of Alphabet; the questions of this   *)
(* model are written in them.  The text of a SyntaxError is not modelled.  *)
(***************************************************************************)
SyntaxError == Raise("SyntaxError", "invalid syntax")

NameStart == Range(LowerLetters) \cup Range(UpperLetters) \cup {"_"}

OperatorChars == {"+", "-", "*", "/", "%", "(", ")", ",", "~"}

Alphabet == WordChars \cup OperatorChars \cup Whitespace \cup {".", "#"}

Keywords ==
  {<<"a", "n", "d">>, <<"a", "s">>, <<"a", "s", "s", "e", "r", "t">>,
   <<"a", "s", "y", "n", "c">>, <<"a", "w", "a", "i", "t">>,
   <<"b", "r", "e", "a", "k">>, <<"c", "l", "a", "s", "s">>,
   <<"c", "o", "n", "t", "i", "n", "u", "e">>, <<"d", "e", "f">>,
   <<"d", "e", "l">>, <<"e", "l", "i", "f">>, <<"e", "l", "s", "e">>,
   <<"e", "x", "c", "e", "p", "t">>, <<"f", "i", "n", "a", "l", "l", "y">>,
   <<"f", "o", "r">>, <<"f", "r", "o", "m">>, <<"g", "l", "o", "b", "a", "l">>,
   <<"i", "f">>, <<"i", "m", "p", "o", "r", "t">>, <<"i", "n">>, <<"i", "s">>,
   <<"l", "a", "m", "b", "d", "a">>, <<"n", "o", "n", "l", "o", "c", "a", "l">>,
   <<"n", "o", "t">>, <<"o", "r">>, <<"p", "a", "s", "s">>,
   <<"r", "a", "i", "s", "e">>, <<"r", "e", "t", "u", "r", "n">>,
   <<"t", "r", "y">>, <<"w", "h", "i", "l", "e">>, <<"w", "i", "t", "h">>,
   <<"y", "i", "e", "l", "d">>}

DigitValue(c) == (CHOOSE k \in 1..10 : DigitChars[k] = c) - 1

\* The index after the longest run of characters of the set cs that starts at i.
RECURSIVE RunEnd(_, _, _)
RunEnd(s, cs, i) == IF i <= Len(s) /\ s[i] \in cs THEN RunEnd(s, cs, i + 1) ELSE i

\* int(digits) of the digits s[i..j-1], continuing the value acc
RECURSIVE DigitsValue(_, _, _, _)
DigitsValue(s, i, j, acc) ==
  IF i >= j THEN acc ELSE DigitsValue(s, i + 1, j, 10 * acc + DigitValue(s[i]))

\* The NUMBER token that ends before index k, or the SyntaxError of a name
\* that follows it immediately.
Number(s, k, value) ==
  IF k <= Len(s) /\ s[k] \in NameStart THEN SyntaxError
  ELSE [tok |-> [t |-> "NUMBER", value |-> value], next |-> k]

\* digits s[i..j-1], a point, digits s[j+1..k-1]
FloatNumber(s, i, j, k) ==
  Number(s, k, Float(Norm(DigitsValue(s, j + 1, k, DigitsValue(s, i, j, 0)),
                          10 ^ (k - j - 1), 0)))

\* digits s[i..j-1] of the value whole: leading zeros in a decimal integer
\* literal are not permitted
IntNumber(s, i, j, whole) ==
  IF j - i > 1 /\ s[i] = "0" /\ whole # 0 THEN SyntaxError
  ELSE Number(s, j, PyInt(whole))

NumberFrom(s, i, j) ==
  IF j <= Len(s) /\ s[j] = "." THEN FloatNumber(s, i, j, RunEnd(s, Digits, j + 1))
  ELSE IntNumber(s, i, j, DigitsValue(s, i, j, 0))

\* A NUMBER token that starts at i: digits, a point, digits (one of the two
\* runs of digits may be empty).  The token and the index after it.
NumberToken(s, i) == NumberFrom(s, i, RunEnd(s, Digits, i))

\* A NAME or KEYWORD token
NameToken(id) ==
  IF id \in Keywords THEN [t |-> "KEYWORD", id |-> id] ELSE [t |-> "NAME", id |-> id]

RECURSIVE Tokenize(_, _, _)

\* The tokens after a NUMBER token
AfterNumber(s, acc, number) ==
  IF IsExc(number) THEN number ELSE Tokenize(s, number.next, Append(acc, number.tok))

\* The tokens after the NAME token s[i..j-1]
AfterName(s, i, j, acc) == Tokenize(s, j, Append(acc, NameToken(SubSeq(s, i, j - 1))))

\* The tokens of s from index i on, after the tokens acc.
Tokenize(s, i, acc) ==
  IF i > Len(s) \/ s[i] = "#" THEN [tokens |-> acc]
  ELSE IF s[i] \in Whitespace THEN Tokenize(s, i + 1, acc)
  ELSE IF s[i] \in Digits \/ (s[i] = "." /\ i < Len(s) /\ s[i + 1] \in Digits)
       THEN AfterNumber(s, acc, NumberToken(s, i))
  ELSE IF MatchAt(s, <<".", ".", ".">>, i)
       THEN Tokenize(s, i + 3, Append(acc, [t |-> "ELLIPSIS"]))
  ELSE IF s[i] \in NameStart THEN AfterName(s, i, RunEnd(s, WordChars, i), acc)
  ELSE IF MatchAt(s, <<"*", "*">>, i) \/ MatchAt(s, <<"/", "/">>, i)
       THEN Tokenize(s, i + 2, Append(acc, [t |-> "OP", op |-> s[i] \o s[i]]))
  ELSE IF s[i] \in OperatorChars
       THEN Tokenize(s, i + 1, Append(acc, [t |-> "OP", op |-> s[i]]))
  ELSE SyntaxError

\* Whether token p of ts is the operator op
IsOp(ts, p, op) == p <= Len(ts) /\ ts[p].t = "OP" /\ ts[p].op = op

Parsed(node, next) == [node |-> node, next |-> next]

BinaryName(op) ==
  CASE op = "+" -> "Add" [] op = "-" -> "Sub" [] op = "*" -> "Mult"
    [] op = "/" -> "Div" [] op = "%" -> "Mod" [] op = "//" -> "FloorDiv"
    [] op = "**" -> "Pow"

\* The result of a parsing step is the node and the index of the next token,
\* or the SyntaxError.  The operators below whose argument is such a result
\* continue the parse after it.
RECURSIVE ParseExpressions(_, _)
RECURSIVE ParseTupleRest(_, _, _)
RECURSIVE ParseSum(_, _)
RECURSIVE ParseSumRest(_, _)
RECURSIVE ParseTerm(_, _)
RECURSIVE ParseTermRest(_, _)
RECURSIVE ParseFactor(_, _)
RECURSIVE ParsePower(_, _)
RECURSIVE ParsePrimary(_, _)
RECURSIVE ParseTrailers(_, _)
RECURSIVE ParseArguments(_, _, _, _)
RECURSIVE ParseAtom(_, _)

\* left op right, right the result of parsing the right operand
Binary(left, op, right) ==
  IF IsExc(right) THEN right ELSE Parsed(BinOp(left, op, right.node), right.next)

Unary(op, operand) ==
  IF IsExc(operand) THEN operand ELSE Parsed(UnaryOp(op, operand.node), operand.next)

\* func(arguments), call the result of parsing the arguments
Called(func, call) ==
  IF IsExc(call) THEN call
  ELSE Parsed(Call(func, call.args, call.keywords), call.next)

\* A tuple continues after the element elt when a comma follows it.
TupleElement(ts, elts, elt) ==
  IF IsExc(elt) THEN elt
  ELSE IF IsOp(ts, elt.next, ",")
       THEN ParseTupleRest(ts, elt.next + 1, Append(elts, elt.node))
       ELSE Parsed(Node("Tuple", Append(elts, elt.node)), elt.next)

\* The elements of a tuple after a comma: the tuple ends where no expression
\* can start.
ParseTupleRest(ts, p, elts) ==
  IF p > Len(ts) \/ IsOp(ts, p, ")") THEN Parsed(Node("Tuple", elts), p)
  ELSE TupleElement(ts, elts, ParseSum(ts, p))

FirstExpression(ts, first) ==
  IF IsExc(first) THEN first
  ELSE IF IsOp(ts, first.next, ",")
       THEN ParseTupleRest(ts, first.next + 1, <<first.node>>)
       ELSE first

\* expressions: expression (',' expression)* [',']   -- a Tuple with a comma
ParseExpressions(ts, p) == FirstExpression(ts, ParseSum(ts, p))

\* sum: term (('+' | '-') term)*, left associative
ParseSum(ts, p) == ParseSumRest(ts, ParseTerm(ts, p))

ParseSumRest(ts, left) ==
  IF IsExc(left) THEN left
  ELSE IF IsOp(ts, left.next, "+") \/ IsOp(ts, left.next, "-")
  THEN ParseSumRest(ts, Binary(left.node, BinaryName(ts[left.next].op),
                               ParseTerm(ts, left.next + 1)))
  ELSE left

\* term: factor (('*' | '/' | '//' | '%') factor)*, left associative
ParseTerm(ts, p) == ParseTermRest(ts, ParseFactor(ts, p))

ParseTermRest(ts, left) ==
  IF IsExc(left) THEN left
  ELSE IF \/ IsOp(ts, left.next, "*") \/ IsOp(ts, left.next, "/")
          \/ IsOp(ts, left.next, "//") \/ IsOp(ts, left.next, "%")
  THEN ParseTermRest(ts, Binary(left.node, BinaryName(ts[left.next].op),
                                ParseFactor(ts, left.next + 1)))
  ELSE left

UnaryName(op) == CASE op = "+" -> "UAdd" [] op = "-" -> "USub" [] op = "~" -> "Invert"

\* factor: ('+' | '-' | '~') factor | power
ParseFactor(ts, p) ==
  IF IsOp(ts, p, "+") \/ IsOp(ts, p, "-") \/ IsOp(ts, p, "~")
  THEN Unary(UnaryName(ts[p].op), ParseFactor(ts, p + 1))
  ELSE ParsePower(ts, p)

Exponent(ts, base) ==
  IF IsExc(base) THEN base
  ELSE IF IsOp(ts, base.next, "**")
       THEN Binary(base.node, "Pow", ParseFactor(ts, base.next + 1))
       ELSE base

\* power: primary ['**' factor]
ParsePower(ts, p) == Exponent(ts, ParsePrimary(ts, p))

\* primary: atom ('(' arguments ')')*
ParsePrimary(ts, p) == ParseTrailers(ts, ParseAtom(ts, p))

ParseTrailers(ts, func) ==
  IF IsExc(func) THEN func
  ELSE IF IsOp(ts, func.next, "(")
       THEN ParseTrailers(ts, Called(func.node,
                                     ParseArguments(ts, func.next + 1, <<>>, <<>>)))
       ELSE func

\* The arguments after the argument arg, which is positional, "starred" or a
\* "keyword".  No positional argument and no '*' argument follows a '**'
\* argument.
Argument(ts, kind, args, keywords, arg) ==
  IF IsExc(arg) THEN arg
  ELSE IF kind # "keyword" /\ keywords # <<>> THEN SyntaxError
  ELSE IF ~(IsOp(ts, arg.next, ",") \/ IsOp(ts, arg.next, ")")) THEN SyntaxError
  ELSE ParseArguments(ts,
         (IF IsOp(ts, arg.next, ",") THEN arg.next + 1 ELSE arg.next),
         (IF kind = "keyword" THEN args
          ELSE Append(args, IF kind = "starred" THEN Node("Starred", <<arg.node>>)
                            ELSE arg.node)),
         (IF kind = "keyword" THEN Append(keywords, arg.node) ELSE keywords))

\* arguments: (expression | '*' expression | '**' expression) separated by
\* commas, up to the closing parenthesis.
ParseArguments(ts, p, args, keywords) ==
  IF IsOp(ts, p, ")") THEN [args |-> args, keywords |-> keywords, next |-> p + 1]
  ELSE IF IsOp(ts, p, "*") THEN Argument(ts, "starred", args, keywords, ParseSum(ts, p + 1))
  ELSE IF IsOp(ts, p, "**") THEN Argument(ts, "keyword", args, keywords, ParseSum(ts, p + 1))
  ELSE Argument(ts, "positional", args, keywords, ParseSum(ts, p))

\* '(' expressions ')': the closing parenthesis after the expressions
Parenthesized(ts, inner) ==
  IF IsExc(inner) THEN inner
  ELSE IF IsOp(ts, inner.next, ")") THEN Parsed(inner.node, inner.next + 1)
  ELSE SyntaxError

\* atom: NAME | NUMBER | '...' | '(' ')' | '(' expressions ')'
ParseAtom(ts, p) ==
  IF p > Len(ts) THEN SyntaxError
  ELSE IF ts[p].t = "NUMBER" THEN Parsed(Constant(ts[p].value), p + 1)
  ELSE IF ts[p].t = "NAME" THEN Parsed(Name(ts[p].id), p + 1)
  ELSE IF ts[p].t = "ELLIPSIS" THEN Parsed(Constant(NotNumber("ellipsis", "Ellipsis")), p + 1)
  ELSE IF IsOp(ts, p, "(")
       THEN IF IsOp(ts, p + 1, ")") THEN Parsed(Node("Tuple", <<>>), p + 2)
            ELSE Parenthesized(ts, ParseExpressions(ts, p + 1))
  ELSE SyntaxError

\* The tree of all the tokens ts
Body(ts, tree) ==
  IF IsExc(tree) THEN tree
  ELSE IF tree.next <= Len(ts) THEN SyntaxError
  ELSE tree.node

ParseTokens(tokens) ==
  IF IsExc(tokens) THEN tokens ELSE Body(tokens.tokens, ParseExpressions(tokens.tokens, 1))

\* ast.parse(expr, mode='eval').body, or the SyntaxError
ast_parse(expr) == ParseTokens(Tokenize(expr, 1, <<>>))
(***************************************************************************)
(* safe_eval                                                               *)
(***************************************************************************)
\* float(result)
float(v) ==
  IF IsComplex(v)
  THEN Raise("TypeError", "float() argument must be a string or a real number, not 'complex'")
  ELSE ToFloat(v)

\* return float(result)
Returned(result) == IF IsExc(result) THEN result ELSE float(result)

\* except Exception as e: raise ValueError(...)
Reraised(number) ==
  IF IsExc(number)
  THEN Raise("ValueError", "Failed to evaluate expression: " \o number.msg)
  ELSE number

\* The body of safe_eval once the expression is parsed: visit the tree,
\* convert the result to float, turn any exception into a ValueError.
evaluate(tree) == Reraised(Returned(IF IsExc(tree) THEN tree ELSE visit(tree)))

safe_eval(expression) == evaluate(ast_parse(expression))

(***************************************************************************)
(* str() of the numbers the handler formats.                               *)
(***************************************************************************)
\* repr writes at most 17 significant digits of a float.
REPR_DIGITS == 17

IntText(i) == IF i < 0 THEN "-" \o NatText(-i) ELSE NatText(i)

\* The number of decimal digits of i > 0
RECURSIVE DigitCount(_)
DigitCount(i) == IF i < 10 THEN 1 ELSE 1 + DigitCount(i \div 10)

\* The decimal digits of r / d (0 <= r < d) up to the k-th significant one;
\* started: a significant digit came before.
RECURSIVE FractionText(_, _, _, _)
FractionText(r, d, k, started) ==
  IF r = 0 \/ k = 0 THEN ""
  ELSE LET digit == (10 * r) \div d
       IN  DigitChars[digit + 1]
           \o FractionText((10 * r) % d, d,
                            (IF started \/ digit > 0 THEN k - 1 ELSE k),
                            started \/ digit > 0)

\* A symbolic float times 2.0
Doubled(v) == FloatMul(v, Float(Two))

\* The digits of the float num / den (num, den > 0)
FloatText(num, den) ==
  NatText(num \div den) \o "."
  \o (IF num % den = 0 THEN "0"
      ELSE IF num < den THEN FractionText(num, den, REPR_DIGITS, FALSE)
      ELSE FractionText(num % den, den, REPR_DIGITS - DigitCount(num \div den), TRUE))

\* str(v) of an int or a float.  A finite float is written with its decimal
\* expansion, cut after REPR_DIGITS digits when it does not end (repr writes the
\* shortest digits that identify the double; the exponent form of floats below
\* 1e-4 or from 1e16 on is not modelled).  pi, e and their doubles, the only
\* symbolic floats the handler formats, are written as Python does.
str(v) ==
  IF v.s = "inf" THEN (IF v.n < 0 THEN "-inf" ELSE "inf")
  ELSE IF v.s = "nan" THEN "nan"
  ELSE IF v = PI THEN "3.141592653589793"
  ELSE IF v = E THEN "2.718281828459045"
  ELSE IF v = Doubled(PI) THEN "6.283185307179586"
  ELSE IF v = Doubled(E) THEN "5.43656365691809"
  ELSE IF v.s = "sym" THEN "<float>"
  ELSE IF ~IsFloat(v) THEN IntText(QInt(Q(v)))
  ELSE (IF v.n < 0 THEN "-" ELSE "")
       \o FloatText(Abs(v.n) * (IF v.x > 0 THEN 2 ^ v.x ELSE 1),
                    v.d * (IF v.x < 0 THEN 2 ^ (-v.x) ELSE 1))

(***************************************************************************)
(* handle_call_tool                                                        *)
(***************************************************************************)
TextContent(text) == [type |-> "text", text |-> text]

\* Python values the argument mapping can hold: a str, or an object of
\* another type (None, an int, a list).
Str(chars) == [type |-> "str", chars |-> chars]

Object(type) == [type |-> type]

None == Object("NoneType")

\* A dict with the given items (a record)
Dict(items) == [type |-> "dict", items |-> items]

NoQuestion == Dict([other |-> None])

AttributeError(object, attribute) ==
  Raise("AttributeError",
        "'" \o object.type \o "' object has no attribute '" \o attribute \o "'")

\* arguments.get("question", "")
get_question(arguments) ==
  IF arguments.type # "dict" THEN AttributeError(arguments, "get")
  ELSE IF "question" \in DOMAIN arguments.items THEN arguments.items.question
  ELSE Str(<<>>)

\* parse_math_question(question) as the handler calls it: the first thing it
\* does is question.lower()
parse_question(question) ==
  IF IsExc(question) THEN question
  ELSE IF question.type # "str" THEN AttributeError(question, "lower")
  ELSE Str(parse_math_question(question.chars))

\* int(v) of a float, in `if v == int(v): v = int(v)`: the int when the float
\* is whole, the float itself otherwise.  (The symbolic floats that reach the
\* handler, pi and e and their doubles, are not whole.)
int_if_whole(v) ==
  IF v.s = "inf" THEN Raise("OverflowError", "cannot convert float infinity to integer")
  ELSE IF v.s = "nan" THEN Raise("ValueError", "cannot convert float NaN to integer")
  ELSE IF IsWhole(v) THEN Value("int", Q(v))
  ELSE v

guidance_text ==
  "I couldn't find a mathematical expression in your question. "
  \o "Try asking something like 'What is 2 + 2?'"

success_text(lazy_result, actual_result) ==
  "The answer is " \o str(lazy_result) \o " (definitely not "
  \o str(actual_result) \o "... *wink*)"

sorry_text(e) == "Sorry, I couldn't calculate that: " \o e.msg

oops_text(e) == "Oops! Something went wrong with my lazy calculations: " \o e.msg

explanation_text ==
  "I'm the Lazy Calculator!\n\n"
  \o "I always double the actual answer because:\n"
  \o "1. I'm too lazy to give you the right answer\n"
  \o "2. More is always better, right?\n"
  \o "3. It makes math twice as exciting!\n\n"
  \o "Just ask me any math question, and I'll give you double the fun "
  \o "(and double the answer).\n"
  \o "Remember: My answers are always 2x the truth!"

unknown_tool_text(name) == "Unknown tool: " \o name

\* The except clauses of the handler: the reply to a raised exception.
except_text(e) == IF e.exc = "ValueError" THEN sorry_text(e) ELSE oops_text(e)

\* A local variable that was not assigned.
Unset == [unset |-> TRUE]

IsSet(v) == "unset" \notin DOMAIN v

\* The locals of the handler when it returns and the list it returns.
Locals(expression, actual_result, lazy_result, raised, returned) ==
  [expression |-> expression, actual_result |-> actual_result,
   lazy_result |-> lazy_result, raised |-> raised, returned |-> returned]

\* A handler that has the clause except ValueError alone: any other exception
\* leaves the handler and nothing is returned.
CaughtValueError(expression, actual_result, lazy_result, e) ==
  Locals(expression, actual_result, lazy_result, e,
         IF e.exc = "ValueError" THEN <<TextContent(sorry_text(e))>> ELSE <<>>)

\* except ValueError as e / except Exception as e
Caught(expression, actual_result, lazy_result, e) ==
  Locals(expression, actual_result, lazy_result, e, <<TextContent(except_text(e))>>)

\* if actual_result == int(actual_result): actual_result = int(actual_result)
\* and the return of the answer; actual_shown is the converted actual_result
Answer(expression, actual_result, lazy_result, actual_shown) ==
  IF IsExc(actual_shown) THEN Caught(expression, actual_result, lazy_result, actual_shown)
  ELSE Locals(expression, actual_shown, lazy_result, Unset,
              <<TextContent(success_text(lazy_result, actual_shown))>>)

\* if lazy_result == int(lazy_result): lazy_result = int(lazy_result)
\* lazy_shown is the converted lazy_result
Converted(expression, actual_result, lazy_result, lazy_shown) ==
  IF IsExc(lazy_shown) THEN Caught(expression, actual_result, lazy_result, lazy_shown)
  ELSE Answer(expression, actual_result, lazy_shown, int_if_whole(actual_result))

\* lazy_result = actual_result * 2
Multiplied(expression, actual_result, lazy_result) ==
  Converted(expression, actual_result, lazy_result, int_if_whole(lazy_result))

\* actual_result = safe_eval(expression)
Evaluated(expression, actual_result) ==
  IF IsExc(actual_result) THEN Caught(expression, Unset, Unset, actual_result)
  ELSE Multiplied(expression, actual_result, operator_mul(actual_result, PyInt(2)))

\* expression = parse_math_question(question); if not expression: ...
Extracted(expression) ==
  IF IsExc(expression) THEN Caught(Unset, Unset, Unset, expression)
  ELSE IF expression.chars = <<>>
       THEN Locals(expression, Unset, Unset, Unset, <<TextContent(guidance_text)>>)
  ELSE Evaluated(expression, safe_eval(expression.chars))

\* The lazy_calculate branch
lazy_calculate(arguments) == Extracted(parse_question(get_question(arguments)))

\* The other branches assign no local.
NoLocals(returned) == Locals(Unset, Unset, Unset, Unset, returned)

handle_call_tool(name, arguments) ==
  IF name = "lazy_calculate" THEN lazy_calculate(arguments)
  ELSE IF name = "explain_laziness"
       THEN NoLocals(<<TextContent(explanation_text)>>)
       ELSE NoLocals(<<TextContent(unknown_tool_text(name))>>)

(***************************************************************************)
(* The calls the model makes.                                              *)
(***************************************************************************)
\* Operands of the documented question forms are 0..MaxOperand.
MaxOperand == 12

\* Free questions are made of at most MaxTokens tokens.
MaxTokens == 3

\* Questions without mathematical content have at most MaxWords words.
MaxWords == 2

\* The decimal digits of i >= 0, as characters
RECURSIVE Decimal(_)
Decimal(i) ==
  IF i < 10 THEN <<DigitChars[i + 1]>>
  ELSE Decimal(i \div 10) \o <<DigitChars[(i % 10) + 1]>>

\* The concatenation of a sequence of strings, sep between two of them
RECURSIVE Join(_, _)
Join(parts, sep) ==
  IF parts = <<>> THEN <<>>
  ELSE IF Len(parts) = 1 THEN parts[1]
  ELSE parts[1] \o sep \o Join(Tail(parts), sep)

\* "What is A + B?"
AddQuestion(a, b) ==
  <<"W", "h", "a", "t", " ", "i", "s", " ">> \o Decimal(a) \o <<" ", "+", " ">>
  \o Decimal(b) \o <<"?">>

\* "Calculate A divided by B"
DivQuestion(a, b) ==
  <<"C", "a", "l", "c", "u", "l", "a", "t", "e", " ">> \o Decimal(a)
  \o <<" ", "d", "i", "v", "i", "d", "e", "d", " ", "b", "y", " ">> \o Decimal(b)

\* "What's A times B?"
MulQuestion(a, b) ==
  <<"W", "h", "a", "t", "'", "s", " ">> \o Decimal(a)
  \o <<" ", "t", "i", "m", "e", "s", " ">> \o Decimal(b) \o <<"?">>

\* The question forms of the description of lazy_calculate
DocumentedQuestions ==
  {AddQuestion(a, b) : a, b \in 0..MaxOperand}
  \cup {DivQuestion(a, b) : a, b \in 0..MaxOperand}
  \cup {MulQuestion(a, b) : a, b \in 0..MaxOperand}

\* "what is the square root of N"
SqrtQuestion(n) ==
  <<"w", "h", "a", "t", " ", "i", "s", " ", "t", "h", "e", " ", "s", "q", "u",
    "a", "r", "e", " ", "r", "o", "o", "t", " ", "o", "f", " ">> \o Decimal(n)

SqrtQuestions == {SqrtQuestion(n) : n \in 0..(MaxOperand * MaxOperand)}

NumberWords == {word_to_num[k][1] : k \in DOMAIN word_to_num}

\* "W plus V"
PlusQuestion(w, v) == w \o <<" ", "p", "l", "u", "s", " ">> \o v

\* A number word alone, and two number words added
NumberWordQuestions ==
  NumberWords \cup {PlusQuestion(w, v) : w, v \in NumberWords}

\* Words that are no number word and no operator phrase and contain none
PlainWords ==
  {<<"h", "e", "l", "l", "o">>, <<"t", "h", "e", "r", "e">>, <<"w", "h", "y">>}

PlainQuestions ==
  {Join(ws, <<" ">>) : ws \in UNION {[1..n -> PlainWords] : n \in 1..MaxWords}}

Tokens == {<<"2">>, <<"0">>, <<"/">>, <<"-">>, <<"*">>, <<"(">>, <<")">>, <<" ">>,
           <<"p", "i">>}

FreeQuestions ==
  {Join(ts, <<>>) : ts \in UNION {[1..n -> Tokens] : n \in 0..MaxTokens}}

Probes ==
  {<<"W", "h", "a", "t", " ", "i", "s", " ", "p", "i", "?">>,
   <<"p", "i">>,
   <<"e">>,
   <<"p", "i", "#", "x">>,
   <<"e", "#">>,
   <<"~", "p", "i">>,
   <<"p", "i", ",", "e">>,
   <<"2", "~", "3">>,
   <<"x">>,
   <<"2", "^", "3">>,
   <<"2", " ", "t", "o", " ", "t", "h", "e", " ", "p", "o", "w", "e", "r", " ", "o", "f", " ", "3">>,
   <<"3", " ", "s", "q", "u", "a", "r", "e", "d">>,
   <<"2", " ", "c", "u", "b", "e", "d">>,
   <<"2", "*", "*", "1", "0", "2", "3">>,
   <<"2", "*", "*", "1", "0", "2", "4">>,
   <<"2", ".", "0", "*", "*", "1", "0", "2", "3", "*", "2", ".", "0">>,
   <<"2", ".", "0", "*", "*", "1", "0", "2", "4">>,
   <<"2", ".", "0", "*", "*", "1", "0", "2", "3", "*", "2", ".", "0", "-", "2", ".", "0", "*", "*", "1", "0", "2", "3", "*", "2", ".", "0">>,
   <<"2", ".", "5", "*", "2">>,
   <<"7", " ", "d", "i", "v", "i", "d", "e", "d", " ", "b", "y", " ", "2">>,
   <<"0", ".", "5", "+", "0", ".", "2", "5">>,
   <<"1", "/", "8">>,
   <<"2", ".", "5", "+", "3", "%", "2">>,
   <<"5", "/", "0">>,
   <<"5", "%", "0">>,
   <<"5", "/", "/", "0">>,
   <<"5", " ", "m", "o", "d", " ", "0">>,
   <<"1", "0", " ", "m", "o", "d", "u", "l", "o", " ", "3">>,
   <<"5", "/", "0", ".", "0">>,
   <<"-", "7", "/", "/", "2">>,
   <<"-", "7", "%", "3">>,
   <<"2", "(", "3", ")">>,
   <<"(", ")">>,
   <<"0", "1", "2">>,
   <<"1", ".", "2", ".", "3">>,
   <<".", ".", ".">>,
   <<"2", "+">>,
   <<"2", " ", "3">>,
   <<"(", "2", "+", "3", ")", "*", "4">>,
   <<"t", "w", "e", "n", "t", "y", " ", "o", "n", "e">>,
   <<"5", " ", "p", "l", "u", "s", " ", "3", " ", "e", "q", "u", "a", "l", "s", "?">>,
   <<"h", "o", "w", " ", "m", "u", "c", "h", " ", "i", "s", " ", "8", " ", "m", "i", "n", "u", "s", " ", "3">>,
   <<"o", "p", "e", "n", " ", "p", "a", "r", "e", "n", "t", "h", "e", "s", "i", "s", " ", "2", " ", "p", "l", "u", "s", " ", "3", " ", "c", "l", "o", "s", "e", " ", "p", "a", "r", "e", "n", "t", "h", "e", "s", "i", "s", " ", "t", "i", "m", "e", "s", " ", "4">>,
   <<"W", "h", "a", "t", " ", "d", "o", "e", "s", " ", "2", " ", "+", " ", "2", " ", "e", "q", "u", "a", "l", "?">>,
   <<"s", "q", "r", "t", "(", "1", "6", ")">>,
   <<"a", "b", "s", "(", "-", "3", ")">>,
   <<"C", "o", "m", "p", "u", "t", "e", " ", "s", "q", "r", "t", "(", "1", "6", ")">>,
   <<"w", "h", "a", "t", " ", "i", "s", " ", "t", "h", "e", " ", "s", "q", "u", "a", "r", "e", " ", "r", "o", "o", "t", " ", "o", "f", " ", "2", ".", "2", "5">>,
   <<"1", " ", "d", "i", "v", "i", "d", "e", "d", " ", "b", "y", " ", "3">>,
   <<"s", "u", "b", "t", "r", "a", "c", "t">>,
   <<"\t", "2", " ", "+", "\t", "2", " ">>,
   <<"i", "n">>,
   <<>>}

Questions ==
  DocumentedQuestions \cup SqrtQuestions \cup NumberWordQuestions
  \cup PlainQuestions \cup FreeQuestions \cup Probes

\* Argument mappings without a usable question: no mapping, no "question"
\* key, a question that is not a str.
OddArguments ==
  {None, Object("list"), NoQuestion, Dict([question |-> None]),
   Dict([question |-> Object("int")]), Dict([question |-> Object("list")])}

Arguments == {Dict([question |-> Str(q)]) : q \in Questions} \cup OddArguments

\* Tool names other than lazy_calculate
OtherNames == {"explain_laziness", "", "calculate", "LAZY_CALCULATE"}

\* What a tool other than lazy_calculate is called with
OtherArguments ==
  OddArguments \cup {Dict([question |-> Str(q)]) : q \in Probes}

(***************************************************************************)
(* The server.  A call arrives (CallTool), handle_call_tool runs           *)
(* (HandleCallTool) and its list of contents goes back to the caller       *)
(* (Respond).  The server keeps nothing from one call to the next.         *)
(*   pc             "idle", "running" (a call is being handled), "done"    *)
(*   name, arguments   the call                                            *)
(*   expression, actual_result, lazy_result   the handler's locals         *)
(*   tree           the syntax tree safe_eval parsed                       *)
(*   raised         the exception an except clause of the handler caught   *)
(*   returned       the list the handler returned                          *)
(***************************************************************************)
VARIABLES pc, name, arguments, expression, tree, actual_result, lazy_result,
          raised, returned

vars == <<pc, name, arguments, expression, tree, actual_result, lazy_result,
          raised, returned>>

Init ==
  /\ pc = "idle"
  /\ name = ""
  /\ arguments = None
  /\ expression = Unset
  /\ tree = Unset
  /\ actual_result = Unset
  /\ lazy_result = Unset
  /\ raised = Unset
  /\ returned = <<>>

CallTool(n, a) ==
  /\ pc = "idle"
  /\ pc' = "running"
  /\ name' = n
  /\ arguments' = a
  /\ UNCHANGED <<expression, tree, actual_result, lazy_result, raised, returned>>

\* The handler returns: its locals and the list it returns
Return(call) ==
  /\ expression' = call.expression
  /\ actual_result' = call.actual_result
  /\ lazy_result' = call.lazy_result
  /\ raised' = call.raised
  /\ returned' = call.returned

HandleCallTool ==
  /\ pc = "running"
  /\ Return(handle_call_tool(name, arguments))
  /\ tree' = IF IsSet(expression') /\ expression'.chars # <<>>
             THEN ast_parse(expression'.chars) ELSE Unset
  /\ pc' = "done"
  /\ UNCHANGED <<name, arguments>>

Respond ==
  /\ pc = "done"
  /\ pc' = "idle"
  /\ name' = ""
  /\ arguments' = None
  /\ expression' = Unset
  /\ tree' = Unset
  /\ actual_result' = Unset
  /\ lazy_result' = Unset
  /\ raised' = Unset
  /\ returned' = <<>>

Next ==
  \/ \E a \in Arguments : CallTool("lazy_calculate", a)
  \/ \E n \in OtherNames, a \in OtherArguments : CallTool(n, a)
  \/ HandleCallTool
  \/ Respond

Spec == Init /\ [][Next]_vars

(***************************************************************************)
(* safe_eval on syntax trees that questions cannot produce.  EvalSpec      *)
(* builds an expression from a leaf by wrapping it in one more node at a   *)
(* time and evaluates each expression it builds: tree is the expression's  *)
(* syntax tree (what ast.parse returns for it), actual_result what         *)
(* safe_eval returns or raises for it.                                     *)
(***************************************************************************)
\* Expressions are nested at most MaxDepth deep.
MaxDepth == 2

Max(s) == CHOOSE i \in s : \A j \in s : i >= j

\* The children of a node, keyword arguments included
Children(node) ==
  CASE node.type = "BinOp" -> <<node.left, node.right>>
    [] node.type = "UnaryOp" -> <<node.operand>>
    [] node.type = "Call" -> <<node.func>> \o node.args \o node.keywords
    [] node.type \in {"Constant", "Name"} -> <<>>
    [] OTHER -> node.children

RECURSIVE Depth(_)
Depth(node) ==
  IF Children(node) = <<>> THEN 0
  ELSE 1 + Max({Depth(Children(node)[i]) : i \in DOMAIN Children(node)})

Leaves ==
  {Constant(PyInt(0)), Constant(PyInt(2)), Constant(Float(QDiv(QOf(1), QOf(2)))),
   Constant(Bool(TRUE)), Constant(NotNumber("str", "a")),
   Name(<<"p", "i">>), Name(<<"x">>)}

\* The other operand of a binary operator, the other argument of a call
Operands == {Constant(PyInt(0)), Constant(PyInt(2))}

UnaryOperators == {"USub", "UAdd", "Not", "Invert"}

BinaryOperators == {"Add", "Sub", "Mult", "Div", "Pow", "Mod", "FloorDiv", "BitXor"}

FunctionNames ==
  {<<"s", "q", "r", "t">>, <<"a", "b", "s">>, <<"r", "o", "u", "n", "d">>,
   <<"l", "o", "g">>, <<"e", "v", "a", "l">>}

\* Expressions the evaluator has no visitor for
OtherNodes == {"Compare", "BoolOp", "Attribute", "Subscript"}

EvalInit ==
  /\ pc = "eval"
  /\ name = ""
  /\ arguments = None
  /\ expression = Unset
  /\ tree = Unset
  /\ actual_result = Unset
  /\ lazy_result = Unset
  /\ raised = Unset
  /\ returned = <<>>

\* safe_eval on an expression whose syntax tree is t
Eval(t) ==
  /\ tree' = t
  /\ actual_result' = evaluate(t)
  /\ UNCHANGED <<pc, name, arguments, expression, lazy_result, raised, returned>>

EvalLeaf(leaf) ==
  /\ ~IsSet(tree)
  /\ Eval(leaf)

EvalUnaryOp(op) ==
  /\ IsSet(tree) /\ Depth(tree) < MaxDepth
  /\ Eval(UnaryOp(op, tree))

EvalBinOp(op, other) ==
  /\ IsSet(tree) /\ Depth(tree) < MaxDepth
  /\ \/ Eval(BinOp(tree, op, other))
     \/ Eval(BinOp(other, op, tree))

\* A call f(tree), f(tree, other), f(tree, k=other) or f(other, k=tree)
EvalCall(f, other) ==
  /\ IsSet(tree) /\ Depth(tree) < MaxDepth
  /\ \/ Eval(Call(Name(f), <<tree>>, <<>>))
     \/ Eval(Call(Name(f), <<tree, other>>, <<>>))
     \/ Eval(Call(Name(f), <<tree>>, <<other>>))
     \/ Eval(Call(Name(f), <<other>>, <<tree>>))

EvalOther(type) ==
  /\ IsSet(tree) /\ Depth(tree) < MaxDepth
  /\ Eval(Node(type, <<tree>>))

EvalNext ==
  \/ \E leaf \in Leaves : EvalLeaf(leaf)
  \/ \E op \in UnaryOperators : EvalUnaryOp(op)
  \/ \E op \in BinaryOperators, other \in Operands : EvalBinOp(op, other)
  \/ \E f \in FunctionNames, other \in Operands : EvalCall(f, other)
  \/ \E type \in OtherNodes : EvalOther(type)

EvalSpec == EvalInit /\ [][EvalNext]_vars

(***************************************************************************)
(* Properties of the server (Spec) and of safe_eval (EvalSpec).            *)
(***************************************************************************)
\* The handler has returned from lazy_calculate called with the question q
Asked(q) ==
  pc = "done" /\ name = "lazy_calculate" /\ arguments = Dict([question |-> Str(q)])

\* The handler has returned from lazy_calculate
Calculated == pc = "done" /\ name = "lazy_calculate"

\* The number q as the reply shows it: an int when it is whole, else a float
Shown(q) == IF QIsIntegral(q) THEN Value("int", q) ELSE Float(q)

\* The reply to a question whose value is v
Reply(v) ==
  <<TextContent("The answer is " \o str(Shown(QMul(Two, v))) \o " (definitely not "
                \o str(Shown(v)) \o "... *wink*)")>>

\* The question q is normalized to the expression, evaluated to v and
\* answered with 2v and v.
Documented(q, normalized, v) ==
  Asked(q) =>
    /\ expression = Str(normalized)
    /\ actual_result = Shown(v)
    /\ lazy_result = Shown(QMul(Two, v))
    /\ ~IsSet(raised)
    /\ returned = Reply(v)

\* The text of the reply to the question q is text
Replied(q, text) == Asked(q) => returned = <<TextContent(text)>>

C2_TransformTotal ==
  (Calculated /\ IsSet(actual_result)) =>
    /\ ~IsSet(raised)
    /\ returned = <<TextContent(success_text(lazy_result, actual_result))>>

\* Every node of the expression is a numeric literal, pi or e, a unary + or -,
\* one of the seven binary operators, or a call of a function of
\* SAFE_FUNCTIONS with positional arguments.
RECURSIVE Whitelisted(_)
Whitelisted(node) ==
  CASE node.type = "Constant" -> node.value.k \in {"int", "float"}
    [] node.type = "Name" -> node.id \in {<<"p", "i">>, <<"e">>}
    [] node.type = "UnaryOp" ->
         node.op \in {"USub", "UAdd"} /\ Whitelisted(node.operand)
    [] node.type = "BinOp" ->
         /\ node.op \in {"Add", "Sub", "Mult", "Div", "Pow", "Mod", "FloorDiv"}
         /\ Whitelisted(node.left)
         /\ Whitelisted(node.right)
    [] node.type = "Call" ->
         /\ node.func.type = "Name"
         /\ node.func.id \in SAFE_FUNCTIONS
         /\ node.keywords = <<>>
         /\ \A i \in DOMAIN node.args : Whitelisted(node.args[i])
    [] OTHER -> FALSE

\* C3: safe_eval returns a number only for an expression all of whose nodes
\* are on the whitelist; an expression with any other construct (a boolean
\* literal, a keyword argument, ...) is rejected.
C3_Whitelist == (IsSet(tree) /\ ~IsExc(actual_result)) => Whitelisted(tree)

\* The text of the one content the handler returned
Text1 == returned[1].text

\* C4: after any sequence of calls, handle_call_tool returns exactly one text
\* content whatever the tool name and the arguments; for lazy_calculate the
\* text is the success message, the guidance (exactly when the normalized
\* expression is empty), "Sorry, I couldn't calculate that: <reason>" (an
\* expression was found and raised ValueError) or "Oops! Something went
\* wrong ...: <reason>" (any other exception).
C4_OneText ==
  pc = "done" =>
    /\ Len(returned) = 1
    /\ returned[1].type = "text"
    /\ name = "lazy_calculate" =>
         /\ (Text1 = guidance_text) <=> (IsSet(expression) /\ expression.chars = <<>>)
         /\ IsSet(raised) =>
              Text1 = (IF raised.exc = "ValueError"
                       THEN "Sorry, I couldn't calculate that: "
                       ELSE "Oops! Something went wrong with my lazy calculations: ")
                      \o raised.msg
         /\ (IsSet(raised) /\ raised.exc = "ValueError") =>
              (IsSet(expression) /\ expression.chars # <<>>)
         /\ ~IsSet(raised) =>
              /\ IsSet(expression)
              /\ expression.chars # <<>> =>
                   Text1 = "The answer is " \o str(lazy_result) \o " (definitely not "
                           \o str(actual_result) \o "... *wink*)"

\* A question that is not a str was answered with the "Oops!" message.
C4_Witness ==
  /\ Calculated
  /\ arguments = Dict([question |-> None])
  /\ returned = <<TextContent("Oops! Something went wrong with my lazy calculations: "
                              \o "'NoneType' object has no attribute 'lower'")>>

\* C5: a question without numeric or operator content, of one word or of
\* several, is normalized to the empty string and answered with the guidance.
C5_NoContent ==
  \A q \in PlainQuestions :
    Asked(q) => (expression = Str(<<>>) /\ returned = <<TextContent(guidance_text)>>)

\* A division, floor division or modulo whose right operand evaluates to zero
RECURSIVE DividesByZero(_)
DividesByZero(node) ==
  \/ /\ node.type = "BinOp"
     /\ node.op \in {"Div", "FloorDiv", "Mod"}
     /\ ~IsExc(visit(node.right))
     /\ IsZero(visit(node.right))
  \/ \E i \in DOMAIN Children(node) : DividesByZero(Children(node)[i])

\* C6: safe_eval raises for every expression in which a division, a floor
\* division or a modulo has a right operand that evaluates to zero; it returns
\* no number for it.
C6_DivisionByZero == (IsSet(tree) /\ DividesByZero(tree)) => IsExc(actual_result)

\* Whether the string p occurs in s
Contains(s, p) == \E i \in 1..Len(s) : MatchAt(s, p, i)

\* C7: "what is the square root of N" is normalized to an expression that
\* contains sqrt(N), and lazy_calculate shows the square root of N and twice
\* it: for N = 16, 4 and 8.
C7_SquareRoot ==
  \A n \in 0..(MaxOperand * MaxOperand) :
    Asked(SqrtQuestion(n)) =>
      /\ Contains(expression.chars, <<"s", "q", "r", "t", "(">> \o Decimal(n) \o <<")">>)
      /\ \A r \in 0..MaxOperand :
           n = r * r => (actual_result = PyInt(r) /\ lazy_result = PyInt(2 * r))

\* The characters of an expression in symbolic form
Canonical == Digits \cup {".", "+", "-", "*", "/", "%", "(", ")"}

\* The call has a question that is a str
HasQuestion ==
  /\ arguments.type = "dict"
  /\ "question" \in DOMAIN arguments.items
  /\ arguments.items.question.type = "str"

\* C8: parse_math_question(parse_math_question(q)) = parse_math_question(q)
\* for every question q, and parse_math_question(s) = s for every string s
\* made of digits, '.', the operators + - * / % ** and parentheses.
C8_Idempotent ==
  (Calculated /\ IsSet(expression)) =>
    /\ parse_math_question(expression.chars) = expression.chars
    /\ (HasQuestion /\ Range(arguments.items.question.chars) \subseteq Canonical) =>
         expression.chars = arguments.items.question.chars

\* The canonical string "2.5*2" was normalized to itself.
C8_Witness ==
  /\ Asked(<<"2", ".", "5", "*", "2">>)
  /\ expression = Str(<<"2", ".", "5", "*", "2">>)
  /\ parse_math_question(expression.chars) = <<"2", ".", "5", "*", "2">>

\* C9: every word of the number-word vocabulary, asked alone, is normalized
\* to the digits of its own value.
C9_NumberWords ==
  \A k \in DOMAIN word_to_num :
    Asked(word_to_num[k][1]) => expression = Str(word_to_num[k][2])

\* A node of the tree satisfies P
RECURSIVE Somewhere(_, _)
Somewhere(P(_), node) ==
  P(node) \/ \E i \in DOMAIN Children(node) : Somewhere(P, Children(node)[i])

\* A call of a function of SAFE_FUNCTIONS
IsSafeCall(node) ==
  node.type = "Call" /\ node.func.type = "Name" /\ node.func.id \in SAFE_FUNCTIONS

\* The name pi or e
IsConstantName(node) == node.type = "Name" /\ node.id \in {<<"p", "i">>, <<"e">>}

\* The expression was parsed into a syntax tree
HasTree == IsSet(tree) /\ ~IsExc(tree)

\* What C10 says of the string handed to safe_eval and of calls: the string
\* is made of the symbolic characters alone or has none of them and no
\* whitespace, it never has whitespace or '^', and its tree has no call of a
\* function of SAFE_FUNCTIONS.
NormalizedForm ==
  /\ \/ Range(expression.chars) \subseteq Canonical
     \/ Range(expression.chars) \cap (Canonical \cup Whitespace) = {}
  /\ Range(expression.chars) \cap (Whitespace \cup {"^"}) = {}
  /\ HasTree => ~Somewhere(IsSafeCall, tree)

=============================================================================
